---------------------------- MODULE Spec2Model ----------------------------
(***************************************************************************)
(* Model of scripts/digest.py: the hourly server digest.                   *)
(*                                                                         *)
(* One run of main() is a single thread of control: load the summarizer    *)
(* key, collect() nine sections by running shell probes, build_prompt(),   *)
(* call_claude(), tg() the report in chunks, exit.  The environment (the   *)
(* config file, the clock, what every shell command prints, what the two   *)
(* HTTP services answer) is chosen nondeterministically.                   *)
(*                                                                         *)
(* A text (Python str) is a sequence of Unicode code points.               *)
(*                                                                         *)
(* Assumption: log() (digest.py:19-24) is total, i.e. LOG_FILE can be      *)
(* appended to for the whole run.                                          *)
(***************************************************************************)
EXTENDS Integers, Sequences, FiniteSets, TLC

VARIABLES
    pc,         \* position of the run in main() / collect() / tg()
    config,     \* environment: what json.load(open(CLAUDE_CONFIG)) yields
    clock,      \* environment: what datetime.now(utc) reads
    cmdOut,     \* environment: what each shell command of collect() yields
    api_key,    \* main: api_key
    now,        \* main: now
    s,          \* collect: the dict s (ordered: a sequence of <<key, value>>)
    sections,   \* main: sections
    prompt,     \* main: prompt
    report,     \* main: report
    err,        \* the text str(e) of the exception being handled
    tgCaller,   \* which call site of tg() is active
    tgText,     \* tg: text
    tgChunks,   \* tg: the list the comprehension of line 34 built
    tgI,        \* tg: index of the next chunk of the for loop (1-based)
    logLines,   \* the lines appended to LOG_FILE, in order
    requests,   \* the sendMessage requests issued, in order
    calls,      \* the functions main() has invoked, in order
    exitCode    \* process exit status; -1 while running

vars == << pc, config, clock, cmdOut, api_key, now, s, sections, prompt, report,
           err, tgCaller, tgText, tgChunks, tgI, logLines, requests, calls, exitCode >>

\* ----------------------------------------------------------------------
\* String literals of digest.py, as tuples of Unicode code points.
\* A text is a sequence of code points; Len is Python's len() of a str.
\* ----------------------------------------------------------------------

\* digest.py:15  "claude-sonnet-4-6"
MODEL ==
    <<99, 108, 97, 117, 100, 101, 45, 115, 111, 110, 110, 101, 116, 45, 52, 45, 54>>

\* digest.py:197  "digest started"
MsgDigestStarted ==
    <<100, 105, 103, 101, 115, 116, 32, 115, 116, 97, 114, 116, 101, 100>>

\* digest.py:203  "primaryApiKey not found in ~/.claude.json"
MsgKeyNotFound ==
    <<112, 114, 105, 109, 97, 114, 121, 65, 112, 105, 75, 101, 121, 32, 110, 111, 116, 32, 102,
    111, 117, 110, 100, 32, 105, 110, 32, 126, 47, 46, 99, 108, 97, 117, 100, 101, 46, 106,
    115, 111, 110>>

\* digest.py:205  "ERROR loading API key: "
MsgErrorLoadingKey ==
    <<69, 82, 82, 79, 82, 32, 108, 111, 97, 100, 105, 110, 103, 32, 65, 80, 73, 32, 107, 101,
    121, 58, 32>>

\* digest.py:206  "U+1F534 <b>digest error</b>: "
TgDigestError ==
    <<128308, 32, 60, 98, 62, 100, 105, 103, 101, 115, 116, 32, 101, 114, 114, 111, 114, 60,
    47, 98, 62, 58, 32>>

\* digest.py:214  "data collected, calling "
MsgDataCollected ==
    <<100, 97, 116, 97, 32, 99, 111, 108, 108, 101, 99, 116, 101, 100, 44, 32, 99, 97, 108,
    108, 105, 110, 103, 32>>

\* digest.py:216  "response received, sending to Telegram"
MsgResponseReceived ==
    <<114, 101, 115, 112, 111, 110, 115, 101, 32, 114, 101, 99, 101, 105, 118, 101, 100, 44,
    32, 115, 101, 110, 100, 105, 110, 103, 32, 116, 111, 32, 84, 101, 108, 101, 103, 114, 97,
    109>>

\* digest.py:217  "U+1F4CA <b>Hourly digest</b> U+2014 "
TgHourlyDigest ==
    <<128202, 32, 60, 98, 62, 72, 111, 117, 114, 108, 121, 32, 100, 105, 103, 101, 115, 116,
    60, 47, 98, 62, 32, 8212, 32>>

\* digest.py:217  " UTC\n\n"
TgUtcBlank ==
    <<32, 85, 84, 67, 10, 10>>

\* digest.py:218  "digest sent OK"
MsgDigestSentOK ==
    <<100, 105, 103, 101, 115, 116, 32, 115, 101, 110, 116, 32, 79, 75>>

\* digest.py:220  "ERROR: "
MsgError ==
    <<69, 82, 82, 79, 82, 58, 32>>

\* digest.py:221  "U+1F534 <b>digest script error</b>: <code>"
TgScriptError ==
    <<128308, 32, 60, 98, 62, 100, 105, 103, 101, 115, 116, 32, 115, 99, 114, 105, 112, 116,
    32, 101, 114, 114, 111, 114, 60, 47, 98, 62, 58, 32, 60, 99, 111, 100, 101, 62>>

\* digest.py:221  "</code>"
TgCodeClose ==
    <<60, 47, 99, 111, 100, 101, 62>>

\* digest.py:43  "TG error: "
MsgTgError ==
    <<84, 71, 32, 101, 114, 114, 111, 114, 58, 32>>

\* digest.py:77  "(no containers running)"
NoContainersRunning ==
    <<40, 110, 111, 32, 99, 111, 110, 116, 97, 105, 110, 101, 114, 115, 32, 114, 117, 110, 110,
    105, 110, 103, 41>>

\* digest.py:82  "(no logs)"
NoLogs ==
    <<40, 110, 111, 32, 108, 111, 103, 115, 41>>

\* digest.py:96  "(none)"
NoneText ==
    <<40, 110, 111, 110, 101, 41>>

\* digest.py:109  "(fail2ban not available)"
Fail2banNotAvailable ==
    <<40, 102, 97, 105, 108, 50, 98, 97, 110, 32, 110, 111, 116, 32, 97, 118, 97, 105, 108, 97,
    98, 108, 101, 41>>

\* digest.py:112  "(no events)"
NoEvents ==
    <<40, 110, 111, 32, 101, 118, 101, 110, 116, 115, 41>>

\* digest.py:136  "(empty)"
EmptyText ==
    <<40, 101, 109, 112, 116, 121, 41>>

\* digest.py:86  "Memory: "
LblMemory ==
    <<77, 101, 109, 111, 114, 121, 58, 32>>

\* digest.py:87  "Swap:   "
LblSwap ==
    <<83, 119, 97, 112, 58, 32, 32, 32>>

\* digest.py:88  "Disk:   "
LblDisk ==
    <<68, 105, 115, 107, 58, 32, 32, 32>>

\* digest.py:89  "Load:   "
LblLoad ==
    <<76, 111, 97, 100, 58, 32, 32, 32>>

\* digest.py:90  "Uptime: "
LblUptime ==
    <<85, 112, 116, 105, 109, 101, 58, 32>>

\* digest.py:120  "TCP stats:      "
LblTcpStats ==
    <<84, 67, 80, 32, 115, 116, 97, 116, 115, 58, 32, 32, 32, 32, 32, 32>>

\* digest.py:121  "Established:    "
LblEstablished ==
    <<69, 115, 116, 97, 98, 108, 105, 115, 104, 101, 100, 58, 32, 32, 32, 32>>

\* digest.py:121  " connections"
LblConnections ==
    <<32, 99, 111, 110, 110, 101, 99, 116, 105, 111, 110, 115>>

\* digest.py:122  "TIME_WAIT:      "
LblTimeWait ==
    <<84, 73, 77, 69, 95, 87, 65, 73, 84, 58, 32, 32, 32, 32, 32, 32>>

\* digest.py:123  "SYN_RECV:       "
LblSynRecv ==
    <<83, 89, 78, 95, 82, 69, 67, 86, 58, 32, 32, 32, 32, 32, 32, 32>>

\* digest.py:123  "  U+2190 >50 U+043CU+043EU+0436U+0435U+0442 U+0431U+044BU+0442U+044C SYN flood"
LblSynFlood ==
    <<32, 32, 8592, 32, 62, 53, 48, 32, 1084, 1086, 1078, 1077, 1090, 32, 1073, 1099, 1090,
    1100, 32, 83, 89, 78, 32, 102, 108, 111, 111, 100>>

\* digest.py:124  "Top source IPs: \n"
LblTopIps ==
    <<84, 111, 112, 32, 115, 111, 117, 114, 99, 101, 32, 73, 80, 115, 58, 32, 10>>

\* digest.py:125  "SSH failed auth (1h): "
LblSshFails ==
    <<83, 83, 72, 32, 102, 97, 105, 108, 101, 100, 32, 97, 117, 116, 104, 32, 40, 49, 104, 41,
    58, 32>>

\* digest.py:126  "fail2ban status:\n"
LblFail2banStatus ==
    <<102, 97, 105, 108, 50, 98, 97, 110, 32, 115, 116, 97, 116, 117, 115, 58, 10>>

\* digest.py:127  "fail2ban events (1h):\n"
LblFail2banEvents ==
    <<102, 97, 105, 108, 50, 98, 97, 110, 32, 101, 118, 101, 110, 116, 115, 32, 40, 49, 104,
    41, 58, 10>>

\* digest.py:192  "=== "
DelimOpen ==
    <<61, 61, 61, 32>>

\* digest.py:192  " ==="
DelimClose ==
    <<32, 61, 61, 61>>

\* digest.py:145  "Report time: "
LblReportTime ==
    <<82, 101, 112, 111, 114, 116, 32, 116, 105, 109, 101, 58, 32>>

\* digest.py:145  " UTC"
LblUtc ==
    <<32, 85, 84, 67>>


\* ----------------------------------------------------------------------
\* Section titles: the keys collect() assigns, digest.py:69-137.
\* ----------------------------------------------------------------------

\* The text of a key, as build_prompt formats it into "=== {title} ===".
TitleText ==
    [docker_containers |-> <<100, 111, 99, 107, 101, 114, 95, 99, 111, 110, 116, 97, 105, 110, 101, 114, 115>>,
     docker_stats |-> <<100, 111, 99, 107, 101, 114, 95, 115, 116, 97, 116, 115>>,
     openclaw_logs |-> <<111, 112, 101, 110, 99, 108, 97, 119, 95, 108, 111, 103, 115>>,
     system_resources |-> <<115, 121, 115, 116, 101, 109, 95, 114, 101, 115, 111, 117, 114, 99, 101, 115>>,
     established_connections |-> <<101, 115, 116, 97, 98, 108, 105, 115, 104, 101, 100, 95, 99, 111, 110, 110, 101, 99, 116, 105, 111, 110, 115>>,
     network_security |-> <<110, 101, 116, 119, 111, 114, 107, 95, 115, 101, 99, 117, 114, 105, 116, 121>>,
     system_errors |-> <<115, 121, 115, 116, 101, 109, 95, 101, 114, 114, 111, 114, 115>>,
     monitor_log |-> <<109, 111, 110, 105, 116, 111, 114, 95, 108, 111, 103>>,
     backup_log |-> <<98, 97, 99, 107, 117, 112, 95, 108, 111, 103>>]


\* ----------------------------------------------------------------------
\* build_prompt: the fixed lines of digest.py:143-190 (line 145 carries `now`).
\* ----------------------------------------------------------------------

\* digest.py:143-190: the list `lines` before the sections are appended,
\* each line with its number in digest.py.
PromptHead(t) ==
    <<
       \* 144  "You are monitoring server 'openclaw-tg-bot' (OpenClaw AI agent + Telegram bot)."
       <<89, 111, 117, 32, 97, 114, 101, 32, 109, 111, 110, 105, 116, 111, 114, 105, 110, 103,
       32, 115, 101, 114, 118, 101, 114, 32, 39, 111, 112, 101, 110, 99, 108, 97, 119, 45, 116,
       103, 45, 98, 111, 116, 39, 32, 40, 79, 112, 101, 110, 67, 108, 97, 119, 32, 65, 73, 32,
       97, 103, 101, 110, 116, 32, 43, 32, 84, 101, 108, 101, 103, 114, 97, 109, 32, 98, 111,
       116, 41, 46>>,
       \* 145  f"Report time: {now} UTC"
       LblReportTime \o t \o LblUtc,
       \* 146  ""
       <<>>,
       \* 147  "Write a terse server status report. Output plain Telegram HTML only."
       <<87, 114, 105, 116, 101, 32, 97, 32, 116, 101, 114, 115, 101, 32, 115, 101, 114, 118,
       101, 114, 32, 115, 116, 97, 116, 117, 115, 32, 114, 101, 112, 111, 114, 116, 46, 32, 79,
       117, 116, 112, 117, 116, 32, 112, 108, 97, 105, 110, 32, 84, 101, 108, 101, 103, 114,
       97, 109, 32, 72, 84, 77, 76, 32, 111, 110, 108, 121, 46>>,
       \* 148  "Style: Teenage Engineering U+2014 minimal, technical, no fluff, no emoji, no box-drawing chars."
       <<83, 116, 121, 108, 101, 58, 32, 84, 101, 101, 110, 97, 103, 101, 32, 69, 110, 103,
       105, 110, 101, 101, 114, 105, 110, 103, 32, 8212, 32, 109, 105, 110, 105, 109, 97, 108,
       44, 32, 116, 101, 99, 104, 110, 105, 99, 97, 108, 44, 32, 110, 111, 32, 102, 108, 117,
       102, 102, 44, 32, 110, 111, 32, 101, 109, 111, 106, 105, 44, 32, 110, 111, 32, 98, 111,
       120, 45, 100, 114, 97, 119, 105, 110, 103, 32, 99, 104, 97, 114, 115, 46>>,
       \* 149  ""
       <<>>,
       \* 150  "RULES:"
       <<82, 85, 76, 69, 83, 58>>,
       \* 151  "- Section headers: <b>CAPS</b>"
       <<45, 32, 83, 101, 99, 116, 105, 111, 110, 32, 104, 101, 97, 100, 101, 114, 115, 58, 32,
       60, 98, 62, 67, 65, 80, 83, 60, 47, 98, 62>>,
       \* 152  "- Values: <code>value</code>"
       <<45, 32, 86, 97, 108, 117, 101, 115, 58, 32, 60, 99, 111, 100, 101, 62, 118, 97, 108,
       117, 101, 60, 47, 99, 111, 100, 101, 62>>,
       \* 153  "- Warnings/errors: <b>!!</b> prefix"
       <<45, 32, 87, 97, 114, 110, 105, 110, 103, 115, 47, 101, 114, 114, 111, 114, 115, 58,
       32, 60, 98, 62, 33, 33, 60, 47, 98, 62, 32, 112, 114, 101, 102, 105, 120>>,
       \* 154  "- NO separator lines (no U+2500U+2500U+2500 or --- or ===)"
       <<45, 32, 78, 79, 32, 115, 101, 112, 97, 114, 97, 116, 111, 114, 32, 108, 105, 110, 101,
       115, 32, 40, 110, 111, 32, 9472, 9472, 9472, 32, 111, 114, 32, 45, 45, 45, 32, 111, 114,
       32, 61, 61, 61, 41>>,
       \* 155  "- NO emoji at all"
       <<45, 32, 78, 79, 32, 101, 109, 111, 106, 105, 32, 97, 116, 32, 97, 108, 108>>,
       \* 156  "- Blank line between sections"
       <<45, 32, 66, 108, 97, 110, 107, 32, 108, 105, 110, 101, 32, 98, 101, 116, 119, 101,
       101, 110, 32, 115, 101, 99, 116, 105, 111, 110, 115>>,
       \* 157  "- Lowercase labels, CAPS for status values: OK / WARN / CRIT"
       <<45, 32, 76, 111, 119, 101, 114, 99, 97, 115, 101, 32, 108, 97, 98, 101, 108, 115, 44,
       32, 67, 65, 80, 83, 32, 102, 111, 114, 32, 115, 116, 97, 116, 117, 115, 32, 118, 97,
       108, 117, 101, 115, 58, 32, 79, 75, 32, 47, 32, 87, 65, 82, 78, 32, 47, 32, 67, 82, 73,
       84>>,
       \* 158  "- Max 35 lines. Cut anything that is normal/expected."
       <<45, 32, 77, 97, 120, 32, 51, 53, 32, 108, 105, 110, 101, 115, 46, 32, 67, 117, 116,
       32, 97, 110, 121, 116, 104, 105, 110, 103, 32, 116, 104, 97, 116, 32, 105, 115, 32, 110,
       111, 114, 109, 97, 108, 47, 101, 120, 112, 101, 99, 116, 101, 100, 46>>,
       \* 159  "- Language: Russian for descriptions, English for technical terms"
       <<45, 32, 76, 97, 110, 103, 117, 97, 103, 101, 58, 32, 82, 117, 115, 115, 105, 97, 110,
       32, 102, 111, 114, 32, 100, 101, 115, 99, 114, 105, 112, 116, 105, 111, 110, 115, 44,
       32, 69, 110, 103, 108, 105, 115, 104, 32, 102, 111, 114, 32, 116, 101, 99, 104, 110,
       105, 99, 97, 108, 32, 116, 101, 114, 109, 115>>,
       \* 160  ""
       <<>>,
       \* 161  "EXACT FORMAT:"
       <<69, 88, 65, 67, 84, 32, 70, 79, 82, 77, 65, 84, 58>>,
       \* 162  ""
       <<>>,
       \* 163  "<b>OPENCLAW-TG-BOT</b>  {DD MON YYYY}  <code>{HH:MM} UTC</code>"
       <<60, 98, 62, 79, 80, 69, 78, 67, 76, 65, 87, 45, 84, 71, 45, 66, 79, 84, 60, 47, 98,
       62, 32, 32, 123, 68, 68, 32, 77, 79, 78, 32, 89, 89, 89, 89, 125, 32, 32, 60, 99, 111,
       100, 101, 62, 123, 72, 72, 58, 77, 77, 125, 32, 85, 84, 67, 60, 47, 99, 111, 100, 101,
       62>>,
       \* 164  ""
       <<>>,
       \* 165  "<b>STATUS</b>  OK"
       <<60, 98, 62, 83, 84, 65, 84, 85, 83, 60, 47, 98, 62, 32, 32, 79, 75>>,
       \* 166  ""
       <<>>,
       \* 167  "<b>CONTAINERS</b>"
       <<60, 98, 62, 67, 79, 78, 84, 65, 73, 78, 69, 82, 83, 60, 47, 98, 62>>,
       \* 168  "openclaw-gateway  <code>up 22m</code>  cpu <code>0.07%</code>  ram <code>359mb</code>"
       <<111, 112, 101, 110, 99, 108, 97, 119, 45, 103, 97, 116, 101, 119, 97, 121, 32, 32, 60,
       99, 111, 100, 101, 62, 117, 112, 32, 50, 50, 109, 60, 47, 99, 111, 100, 101, 62, 32, 32,
       99, 112, 117, 32, 60, 99, 111, 100, 101, 62, 48, 46, 48, 55, 37, 60, 47, 99, 111, 100,
       101, 62, 32, 32, 114, 97, 109, 32, 60, 99, 111, 100, 101, 62, 51, 53, 57, 109, 98, 60,
       47, 99, 111, 100, 101, 62>>,
       \* 169  ""
       <<>>,
       \* 170  "<b>RESOURCES</b>"
       <<60, 98, 62, 82, 69, 83, 79, 85, 82, 67, 69, 83, 60, 47, 98, 62>>,
       \* 171  "cpu <code>0.07%</code>  load <code>0.14 0.15 0.12</code>"
       <<99, 112, 117, 32, 60, 99, 111, 100, 101, 62, 48, 46, 48, 55, 37, 60, 47, 99, 111, 100,
       101, 62, 32, 32, 108, 111, 97, 100, 32, 60, 99, 111, 100, 101, 62, 48, 46, 49, 52, 32,
       48, 46, 49, 53, 32, 48, 46, 49, 50, 60, 47, 99, 111, 100, 101, 62>>,
       \* 172  "mem <code>1.5/3.7G</code> <code>40%</code>  disk <code>13/38G</code> <code>35%</code>"
       <<109, 101, 109, 32, 60, 99, 111, 100, 101, 62, 49, 46, 53, 47, 51, 46, 55, 71, 60, 47,
       99, 111, 100, 101, 62, 32, 60, 99, 111, 100, 101, 62, 52, 48, 37, 60, 47, 99, 111, 100,
       101, 62, 32, 32, 100, 105, 115, 107, 32, 60, 99, 111, 100, 101, 62, 49, 51, 47, 51, 56,
       71, 60, 47, 99, 111, 100, 101, 62, 32, 60, 99, 111, 100, 101, 62, 51, 53, 37, 60, 47,
       99, 111, 100, 101, 62>>,
       \* 173  "uptime <code>3d 5h</code>"
       <<117, 112, 116, 105, 109, 101, 32, 60, 99, 111, 100, 101, 62, 51, 100, 32, 53, 104, 60,
       47, 99, 111, 100, 101, 62>>,
       \* 174  ""
       <<>>,
       \* 175  "<b>NETWORK</b>"
       <<60, 98, 62, 78, 69, 84, 87, 79, 82, 75, 60, 47, 98, 62>>,
       \* 176  "estab <code>5</code>  syn_recv <code>1</code>  time_wait <code>3</code>"
       <<101, 115, 116, 97, 98, 32, 60, 99, 111, 100, 101, 62, 53, 60, 47, 99, 111, 100, 101,
       62, 32, 32, 115, 121, 110, 95, 114, 101, 99, 118, 32, 60, 99, 111, 100, 101, 62, 49, 60,
       47, 99, 111, 100, 101, 62, 32, 32, 116, 105, 109, 101, 95, 119, 97, 105, 116, 32, 60,
       99, 111, 100, 101, 62, 51, 60, 47, 99, 111, 100, 101, 62>>,
       \* 177  "ssh fails <code>201/h</code>"
       <<115, 115, 104, 32, 102, 97, 105, 108, 115, 32, 60, 99, 111, 100, 101, 62, 50, 48, 49,
       47, 104, 60, 47, 99, 111, 100, 101, 62>>,
       \* 178  "fail2ban <code>3</code> banned"
       <<102, 97, 105, 108, 50, 98, 97, 110, 32, 60, 99, 111, 100, 101, 62, 51, 60, 47, 99,
       111, 100, 101, 62, 32, 98, 97, 110, 110, 101, 100>>,
       \* 179  "active sessions: <code>79.152.30.156</code> ssh x2  <code>176.120.22.47</code> ssh x1"
       <<97, 99, 116, 105, 118, 101, 32, 115, 101, 115, 115, 105, 111, 110, 115, 58, 32, 60,
       99, 111, 100, 101, 62, 55, 57, 46, 49, 53, 50, 46, 51, 48, 46, 49, 53, 54, 60, 47, 99,
       111, 100, 101, 62, 32, 115, 115, 104, 32, 120, 50, 32, 32, 60, 99, 111, 100, 101, 62,
       49, 55, 54, 46, 49, 50, 48, 46, 50, 50, 46, 52, 55, 60, 47, 99, 111, 100, 101, 62, 32,
       115, 115, 104, 32, 120, 49>>,
       \* 180  ""
       <<>>,
       \* 181  "<b>EVENTS</b>"
       <<60, 98, 62, 69, 86, 69, 78, 84, 83, 60, 47, 98, 62>>,
       \* 182  "<code>16:09</code> openclaw-gateway restart (sigterm) U+2014 ok"
       <<60, 99, 111, 100, 101, 62, 49, 54, 58, 48, 57, 60, 47, 99, 111, 100, 101, 62, 32, 111,
       112, 101, 110, 99, 108, 97, 119, 45, 103, 97, 116, 101, 119, 97, 121, 32, 114, 101, 115,
       116, 97, 114, 116, 32, 40, 115, 105, 103, 116, 101, 114, 109, 41, 32, 8212, 32, 111,
       107>>,
       \* 183  ""
       <<>>,
       \* 184  "<b>!! {U+043AU+043EU+043DU+043AU+0440U+0435U+0442U+043DU+0430U+044F U+043FU+0440U+043EU+0431U+043BU+0435U+043CU+0430 U+0438 U+0447U+0442U+043E U+0434U+0435U+043BU+0430U+0442U+044C}</b>"
       <<60, 98, 62, 33, 33, 32, 123, 1082, 1086, 1085, 1082, 1088, 1077, 1090, 1085, 1072,
       1103, 32, 1087, 1088, 1086, 1073, 1083, 1077, 1084, 1072, 32, 1080, 32, 1095, 1090,
       1086, 32, 1076, 1077, 1083, 1072, 1090, 1100, 125, 60, 47, 98, 62>>,
       \* 185  ""
       <<>>,
       \* 186  "OMIT any section where there is nothing notable."
       <<79, 77, 73, 84, 32, 97, 110, 121, 32, 115, 101, 99, 116, 105, 111, 110, 32, 119, 104,
       101, 114, 101, 32, 116, 104, 101, 114, 101, 32, 105, 115, 32, 110, 111, 116, 104, 105,
       110, 103, 32, 110, 111, 116, 97, 98, 108, 101, 46>>,
       \* 187  "OMIT the !! block entirely if STATUS is OK."
       <<79, 77, 73, 84, 32, 116, 104, 101, 32, 33, 33, 32, 98, 108, 111, 99, 107, 32, 101,
       110, 116, 105, 114, 101, 108, 121, 32, 105, 102, 32, 83, 84, 65, 84, 85, 83, 32, 105,
       115, 32, 79, 75, 46>>,
       \* 188  "For NETWORK active sessions: identify type (ssh/api/etc) and group by IP."
       <<70, 111, 114, 32, 78, 69, 84, 87, 79, 82, 75, 32, 97, 99, 116, 105, 118, 101, 32, 115,
       101, 115, 115, 105, 111, 110, 115, 58, 32, 105, 100, 101, 110, 116, 105, 102, 121, 32,
       116, 121, 112, 101, 32, 40, 115, 115, 104, 47, 97, 112, 105, 47, 101, 116, 99, 41, 32,
       97, 110, 100, 32, 103, 114, 111, 117, 112, 32, 98, 121, 32, 73, 80, 46>>,
       \* 189  "For threats: exact numbers, no vague wording."
       <<70, 111, 114, 32, 116, 104, 114, 101, 97, 116, 115, 58, 32, 101, 120, 97, 99, 116, 32,
       110, 117, 109, 98, 101, 114, 115, 44, 32, 110, 111, 32, 118, 97, 103, 117, 101, 32, 119,
       111, 114, 100, 105, 110, 103, 46>>
    >>

\* ----------------------------------------------------------------------
\* Python str and list primitives used by the script.
\* ----------------------------------------------------------------------

Min(a, b) == IF a < b THEN a ELSE b

\* str.strip() with no argument removes leading and trailing whitespace.
\* These are the ASCII code points str.isspace() accepts (tab, LF, VT, FF,
\* CR, FS..US, space); the texts of the model hold no other whitespace.
Whitespace == {9, 10, 11, 12, 13, 28, 29, 30, 31, 32}

RECURSIVE lstrip(_)
lstrip(t) ==
    IF t # << >> /\ Head(t) \in Whitespace THEN lstrip(Tail(t)) ELSE t

RECURSIVE rstrip(_)
rstrip(t) ==
    IF t # << >> /\ t[Len(t)] \in Whitespace
    THEN rstrip(SubSeq(t, 1, Len(t) - 1))
    ELSE t

strip(t) == rstrip(lstrip(t))

\* text[i:j] for 0 <= i <= j: the code points at 0-based positions i .. j-1,
\* clipped to the end of the text.
Slice(t, i, j) == SubSeq(t, i + 1, Min(j, Len(t)))

\* range(start, stop, step) for step > 0, as the sequence of its values.
RECURSIVE range(_, _, _)
range(start, stop, step) ==
    IF start >= stop THEN << >>
    ELSE << start >> \o range(start + step, stop, step)

\* sep.join(parts)
RECURSIVE join(_, _)
join(sep, parts) ==
    IF parts = << >> THEN << >>
    ELSE IF Len(parts) = 1 THEN parts[1]
    ELSE parts[1] \o sep \o join(sep, Tail(parts))

\* x or y, for a str x: the empty str is falsy.
Or(x, y) == IF x # << >> THEN x ELSE y

\* "\n"
NL == << 10 >>

\* A dict keeps insertion order; d[k] = v replaces the value of a key that
\* is present and appends a key that is not.
DictKeys(d) == [i \in 1..Len(d) |-> d[i][1]]

DictHas(d, k) == \E i \in 1..Len(d) : d[i][1] = k

DictGet(d, k) == d[CHOOSE i \in 1..Len(d) : d[i][1] = k][2]

DictSet(d, k, v) ==
    IF DictHas(d, k)
    THEN [i \in 1..Len(d) |-> IF d[i][1] = k THEN << k, v >> ELSE d[i]]
    ELSE Append(d, << k, v >>)

\* ----------------------------------------------------------------------
\* The environment of a run: texts the outside world hands to the script.
\* ----------------------------------------------------------------------

\* str(e) of the FileNotFoundError open(CLAUDE_CONFIG) raises (digest.py:200).
\* "[Errno 2] No such file or directory: '/root/.claude.json'"
ErrNoSuchFile ==
    <<91, 69, 114, 114, 110, 111, 32, 50, 93, 32, 78, 111, 32, 115, 117, 99, 104, 32, 102, 105,
    108, 101, 32, 111, 114, 32, 100, 105, 114, 101, 99, 116, 111, 114, 121, 58, 32, 39, 47,
    114, 111, 111, 116, 47, 46, 99, 108, 97, 117, 100, 101, 46, 106, 115, 111, 110, 39>>

\* str(e) of the JSONDecodeError json.load raises on an invalid file (digest.py:200).
\* "Expecting value: line 1 column 1 (char 0)"
ErrInvalidJson ==
    <<69, 120, 112, 101, 99, 116, 105, 110, 103, 32, 118, 97, 108, 117, 101, 58, 32, 108, 105,
    110, 101, 32, 49, 32, 99, 111, 108, 117, 109, 110, 32, 49, 32, 40, 99, 104, 97, 114, 32,
    48, 41>>

\* str(e) of the UnicodeDecodeError subprocess.run(text=True) raises on undecodable output (digest.py:28).
\* "'utf-8' codec can't decode byte 0xff in position 0: invalid start byte"
ErrDecode ==
    <<39, 117, 116, 102, 45, 56, 39, 32, 99, 111, 100, 101, 99, 32, 99, 97, 110, 39, 116, 32,
    100, 101, 99, 111, 100, 101, 32, 98, 121, 116, 101, 32, 48, 120, 102, 102, 32, 105, 110,
    32, 112, 111, 115, 105, 116, 105, 111, 110, 32, 48, 58, 32, 105, 110, 118, 97, 108, 105,
    100, 32, 115, 116, 97, 114, 116, 32, 98, 121, 116, 101>>

\* str(e) of the KeyError json.load(resp)["content"] raises on an error body (digest.py:62).
\* "'content'"
ErrNoContent ==
    <<39, 99, 111, 110, 116, 101, 110, 116, 39>>

\* A non-empty primaryApiKey.
\* "sk-ant-1"
SomeApiKey ==
    <<115, 107, 45, 97, 110, 116, 45, 49>>

\* What docker prints on stderr when the container is absent.
\* "Error: No such container: openclaw-gateway\n"
NoSuchContainer ==
    <<69, 114, 114, 111, 114, 58, 32, 78, 111, 32, 115, 117, 99, 104, 32, 99, 111, 110, 116,
    97, 105, 110, 101, 114, 58, 32, 111, 112, 101, 110, 99, 108, 97, 119, 45, 103, 97, 116,
    101, 119, 97, 121, 10>>

\* The key main() reads from the config (digest.py:201).
\* "primaryApiKey"
KeyName ==
    <<112, 114, 105, 109, 97, 114, 121, 65, 112, 105, 75, 101, 121>>

\* json.load(open(CLAUDE_CONFIG)) either raises or yields a dict (digest.py:200).
Configs ==
    { [raises |-> TRUE,  msg |-> ErrNoSuchFile,  dict |-> << >>],
      [raises |-> TRUE,  msg |-> ErrInvalidJson, dict |-> << >>],
      [raises |-> FALSE, msg |-> << >>, dict |-> << >>],
      [raises |-> FALSE, msg |-> << >>, dict |-> << << KeyName, << >> >> >>],
      [raises |-> FALSE, msg |-> << >>, dict |-> << << KeyName, SomeApiKey >> >>] }

\* config.get(key, default)
get(d, k, default) == IF DictHas(d, k) THEN DictGet(d, k) ELSE default

\* Readings of the UTC clock: "2026-11-03" "14:00" "07", "1999-12-31" "23:59" "59".
Clocks ==
    { [date |-> <<50, 48, 50, 54, 45, 49, 49, 45, 48, 51>>, time |-> <<49, 52, 58, 48, 48>>,
       sec |-> <<48, 55>>],
      [date |-> <<49, 57, 57, 57, 45, 49, 50, 45, 51, 49>>, time |-> <<50, 51, 58, 53, 57>>,
       sec |-> <<53, 57>>] }

\* The shell commands collect() runs, in the order of digest.py:69-137.
CommandList ==
    << "docker_ps", "docker_stats", "docker_logs",
       "free_mem", "free_swap", "df_root", "uptime_load", "uptime_p",
       "ss_established", "ss_summary", "ss_estab_count", "ss_timewait_count",
       "ss_synrecv_count", "ss_top_ips", "fail2ban_status", "fail2ban_journal",
       "ssh_journal", "journal_err", "monitor_tail", "backup_tail" >>

Commands == { CommandList[i] : i \in 1..Len(CommandList) }

CommandIndex(c) == CHOOSE i \in 1..Len(CommandList) : CommandList[i] = c

\* A command that works prints a line of its own: "v", a letter, "\n".
NormalOut(c) ==
    [raises |-> FALSE, stdout |-> << 118, 96 + CommandIndex(c), 10 >>, stderr |-> << >>,
     rc |-> 0]

\* subprocess.run captured nothing: the command succeeded with no output, or
\* failed (rc 1) with its stderr sent to /dev/null.
SilentOk   == [raises |-> FALSE, stdout |-> << >>, stderr |-> << >>, rc |-> 0]
SilentFail == [raises |-> FALSE, stdout |-> << >>, stderr |-> << >>, rc |-> 1]
\* Only whitespace was printed: " \n".
BlankOut   == [raises |-> FALSE, stdout |-> << 32, 10 >>, stderr |-> << >>, rc |-> 0]
\* The command failed and wrote its error text to stderr.
FailWithText == [raises |-> FALSE, stdout |-> << >>, stderr |-> NoSuchContainer, rc |-> 1]
\* Output surrounded by whitespace, part on stdout and part on stderr: "\n x", "y \n".
PaddedOut  == [raises |-> FALSE, stdout |-> << 10, 32, 120 >>, stderr |-> << 121, 32, 10 >>,
               rc |-> 0]
\* subprocess.run itself raises (text=True cannot decode the output).
RunRaises  == [raises |-> TRUE, stdout |-> << >>, stderr |-> << >>, rc |-> 0]

AbnormalOuts == { SilentOk, SilentFail, BlankOut, FailWithText, PaddedOut, RunRaises }

AllNormal == [c \in Commands |-> NormalOut(c)]

\* The outcomes in which at most n commands do not print their normal line.
RECURSIVE Outcomes(_)
Outcomes(n) ==
    IF n = 0 THEN { AllNormal }
    ELSE LET prev == Outcomes(n - 1)
         IN  prev \cup { [f EXCEPT ![c] = a] : f \in prev, c \in Commands, a \in AbnormalOuts }

\* Outcomes of a whole run: all normal; the openclaw-gateway container absent;
\* nothing prints anything; one command's output cannot be decoded.
Scenarios ==
    { AllNormal,
      [AllNormal EXCEPT !["docker_logs"] = FailWithText],
      [c \in Commands |-> SilentOk],
      [AllNormal EXCEPT !["ss_top_ips"] = RunRaises] }

\* A text of n code points 'a'..'g', cycling from an offset k.
Fill(n, k) == [i \in 1..n |-> 97 + ((i + k) % 7)]

\* ----------------------------------------------------------------------
\* log(), digest.py:19-24
\* ----------------------------------------------------------------------

\* strftime("%Y-%m-%dT%H:%M:%SZ") of a clock reading (digest.py:20).
IsoStamp(c) == c.date \o << 84 >> \o c.time \o << 58 >> \o c.sec \o << 90 >>

\* strftime("%Y-%m-%d %H:%M") of a clock reading (digest.py:209).
MinuteStamp(c) == c.date \o << 32 >> \o c.time

\* line = f"{ts} {msg}", appended to LOG_FILE.
log(lines, c, msg) == Append(lines, IsoStamp(c) \o << 32 >> \o msg)

\* The message part of a logged line: what follows the stamp and the space.
LoggedMsg(line) == SubSeq(line, Len(IsoStamp(clock)) + 2, Len(line))

\* ----------------------------------------------------------------------
\* tg(text), digest.py:32-43
\* ----------------------------------------------------------------------

\* Mutant of ChunkSize: the documented limit of a Telegram message, 4096.
ChunkSizeOfTelegram == 4000 + 96

\* The transport limit of one sendMessage request.
ChunkSize == 4000

\* Mutant of tg_chunks: the slice ends one short, text[i:i+3999].
tg_chunks_short(text) ==
    LET starts == range(0, Len(text), ChunkSize)
    IN  [k \in 1..Len(starts) |-> Slice(text, starts[k], starts[k] + ChunkSize - 1)]

\* [text[i:i+4000] for i in range(0, len(text), 4000)]
tg_chunks(text) ==
    LET starts == range(0, Len(text), ChunkSize)
    IN  [k \in 1..Len(starts) |-> Slice(text, starts[k], starts[k] + ChunkSize)]

\* What urlopen raises on a network or HTTP failure, as str(e).
\* "timed out", "HTTP Error 400: Bad Request"
UrlErrors ==
    { <<116, 105, 109, 101, 100, 32, 111, 117, 116>>,
      <<72, 84, 84, 80, 32, 69, 114, 114, 111, 114, 32, 52, 48, 48, 58, 32, 66, 97, 100, 32,
        82, 101, 113, 117, 101, 115, 116>> }

\* repr of a reply whose "ok" is falsy: "{'ok': False}"
RejectedReply ==
    <<123, 39, 111, 107, 39, 58, 32, 70, 97, 108, 115, 101, 125>>

\* A call site hands `text` to tg(): control enters tg.
CallTg(site, text) ==
    /\ tgCaller' = site
    /\ tgText' = text
    /\ tgChunks' = << >>
    /\ tgI' = 0
    /\ calls' = Append(calls, [fn |-> "tg", site |-> site])
    /\ pc' = "tg_enter"

\* Line 34: the list of chunks is built before the first request.
TgEnter ==
    /\ pc = "tg_enter"
    /\ tgChunks' = tg_chunks(tgText)
    /\ tgI' = 1
    /\ pc' = "tg_loop"
    /\ UNCHANGED << config, clock, cmdOut, api_key, now, s, sections, prompt, report,
                    err, tgCaller, tgText, logLines, requests, calls, exitCode >>

\* Lines 35-42: the request of the current chunk is answered with "ok" true.
TgSendOk ==
    /\ pc = "tg_loop"
    /\ tgI <= Len(tgChunks)
    /\ requests' = Append(requests,
                          [site |-> tgCaller, text |-> tgChunks[tgI], reply |-> "ok"])
    /\ tgI' = tgI + 1
    /\ UNCHANGED << pc, config, clock, cmdOut, api_key, now, s, sections, prompt, report,
                    err, tgCaller, tgText, tgChunks, logLines, calls, exitCode >>

\* Lines 35-43: the reply's "ok" is falsy: the reply is logged, the loop goes on.
TgSendRejected ==
    /\ pc = "tg_loop"
    /\ tgI <= Len(tgChunks)
    /\ requests' = Append(requests,
                          [site |-> tgCaller, text |-> tgChunks[tgI], reply |-> "rejected"])
    /\ logLines' = log(logLines, clock, MsgTgError \o RejectedReply)
    /\ tgI' = tgI + 1
    /\ UNCHANGED << pc, config, clock, cmdOut, api_key, now, s, sections, prompt, report,
                    err, tgCaller, tgText, tgChunks, calls, exitCode >>

\* Where an exception leaving tg() lands: the report delivery sits inside the
\* try of lines 211-218; the two error notices sit inside except clauses, so
\* the exception is uncaught and the interpreter exits with status 1.
RaisedTo(site) ==
    CASE site = "report" -> "except"
      [] site = "direct" -> "tg_raised"
      [] OTHER           -> "exited"

\* Line 40: urlopen raises (network failure, timeout, HTTP status >= 400);
\* the exception leaves the for loop and tg().
TgSendRaises ==
    /\ pc = "tg_loop"
    /\ tgI <= Len(tgChunks)
    /\ \E e \in UrlErrors :
         /\ requests' = Append(requests,
                               [site |-> tgCaller, text |-> tgChunks[tgI], reply |-> "raised"])
         /\ err' = e
    /\ pc' = RaisedTo(tgCaller)
    /\ exitCode' = IF RaisedTo(tgCaller) = "exited" THEN 1 ELSE exitCode
    /\ UNCHANGED << config, clock, cmdOut, api_key, now, s, sections, prompt, report,
                    tgCaller, tgText, tgChunks, tgI, logLines, calls >>

\* Where control continues when tg() returns.
ReturnedTo(site) ==
    CASE site = "report" -> "log_sent"
      [] site = "direct" -> "tg_returned"
      [] OTHER           -> "sys_exit"

\* The for loop is exhausted: tg() returns None.
TgReturn ==
    /\ pc = "tg_loop"
    /\ tgI > Len(tgChunks)
    /\ pc' = ReturnedTo(tgCaller)
    /\ UNCHANGED << config, clock, cmdOut, api_key, now, s, sections, prompt, report,
                    err, tgCaller, tgText, tgChunks, tgI, logLines, requests, calls, exitCode >>

\* ----------------------------------------------------------------------
\* run(cmd), digest.py:27-29, and collect(), digest.py:65-139
\* ----------------------------------------------------------------------

\* Mutant of run: the captured output is returned untrimmed.
run_unstripped(r) == r.stdout \o r.stderr

\* run(cmd), given the CompletedProcess r of subprocess.run(cmd, ...):
\* return (r.stdout + r.stderr).strip()  -- the return code is not looked at.
run(r) == strip(r.stdout \o r.stderr)

\* What run(cmd) returns for every command, when subprocess.run yields o[cmd].
Ran(o) == [c \in DOMAIN o |-> run(o[c])]

\* The keys of the snapshot, in the order collect() assigns them.
SectionKeys ==
    << "docker_containers", "docker_stats", "openclaw_logs", "system_resources",
       "established_connections", "network_security", "system_errors",
       "monitor_log", "backup_log" >>

\* The commands whose output goes into each section.
SectionCmds ==
    [docker_containers       |-> { "docker_ps" },
     docker_stats            |-> { "docker_stats" },
     openclaw_logs           |-> { "docker_logs" },
     system_resources        |-> { "free_mem", "free_swap", "df_root", "uptime_load",
                                   "uptime_p" },
     established_connections |-> { "ss_established" },
     network_security        |-> { "ss_summary", "ss_estab_count", "ss_timewait_count",
                                   "ss_synrecv_count", "ss_top_ips", "fail2ban_status",
                                   "fail2ban_journal", "ssh_journal" },
     system_errors           |-> { "journal_err" },
     monitor_log             |-> { "monitor_tail" },
     backup_log              |-> { "backup_tail" }]

\* The value each statement of collect() computes for its key, given what
\* run() returned for each command.
docker_containers_value(out) ==
    out["docker_ps"]

docker_stats_value(out) ==
    Or(out["docker_stats"], NoContainersRunning)

openclaw_logs_value(out) ==
    Or(out["docker_logs"], NoLogs)

system_resources_value(out) ==
    join(NL, << LblMemory \o out["free_mem"],
                LblSwap \o out["free_swap"],
                LblDisk \o out["df_root"],
                LblLoad \o out["uptime_load"],
                LblUptime \o out["uptime_p"] >>)

established_connections_value(out) ==
    Or(out["ss_established"], NoneText)

network_security_value(out) ==
    LET tcp_total    == out["ss_summary"]
        tcp_estab    == out["ss_estab_count"]
        tcp_timewait == out["ss_timewait_count"]
        tcp_synrecv  == out["ss_synrecv_count"]
        top_ips      == Or(out["ss_top_ips"], NoneText)
        fail2ban     == Or(out["fail2ban_status"], Fail2banNotAvailable)
        fail2ban_log == Or(out["fail2ban_journal"], NoEvents)
        ssh_fails    == out["ssh_journal"]
    IN  join(NL, << LblTcpStats \o tcp_total,
                    LblEstablished \o tcp_estab \o LblConnections,
                    LblTimeWait \o tcp_timewait,
                    LblSynRecv \o tcp_synrecv \o LblSynFlood,
                    LblTopIps \o top_ips,
                    LblSshFails \o ssh_fails,
                    LblFail2banStatus \o fail2ban,
                    LblFail2banEvents \o fail2ban_log >>)

system_errors_value(out) ==
    Or(out["journal_err"], NoneText)

monitor_log_value(out) ==
    Or(out["monitor_tail"], EmptyText)

backup_log_value(out) ==
    Or(out["backup_tail"], EmptyText)

\* The position of the run inside collect(): about to compute the given key.
At(key) == "at_" \o key

\* One of the commands of the section being computed makes subprocess.run raise.
Raising(key) == \E c \in SectionCmds[key] : cmdOut[c].raises

\* Line 66: main() calls collect(), which starts from an empty dict.
CollectBegin ==
    /\ pc = "collect"
    /\ s' = << >>
    /\ calls' = Append(calls, [fn |-> "collect", site |-> "main"])
    /\ pc' = At("docker_containers")
    /\ UNCHANGED << config, clock, cmdOut, api_key, now, sections, prompt, report, err,
                    tgCaller, tgText, tgChunks, tgI, logLines, requests, exitCode >>

\* s[key] = value, and on to the next statement.
Assign(key, value, next) ==
    /\ pc = At(key)
    /\ ~Raising(key)
    /\ s' = DictSet(s, key, value)
    /\ pc' = next
    /\ UNCHANGED << config, clock, cmdOut, api_key, now, sections, prompt, report, err,
                    tgCaller, tgText, tgChunks, tgI, logLines, requests, calls, exitCode >>

Collect_docker_containers ==
    Assign("docker_containers", docker_containers_value(Ran(cmdOut)), At("docker_stats"))

Collect_docker_stats ==
    Assign("docker_stats", docker_stats_value(Ran(cmdOut)), At("openclaw_logs"))

\* Mutant of Collect_openclaw_logs: the key is assigned only when there are logs.
Collect_openclaw_logs_if_any ==
    /\ pc = At("openclaw_logs")
    /\ ~Raising("openclaw_logs")
    /\ s' = IF Ran(cmdOut)["docker_logs"] # << >>
            THEN DictSet(s, "openclaw_logs", Ran(cmdOut)["docker_logs"])
            ELSE s
    /\ pc' = At("system_resources")
    /\ UNCHANGED << config, clock, cmdOut, api_key, now, sections, prompt, report, err,
                    tgCaller, tgText, tgChunks, tgI, logLines, requests, calls, exitCode >>

Collect_openclaw_logs ==
    Assign("openclaw_logs", openclaw_logs_value(Ran(cmdOut)), At("system_resources"))

Collect_system_resources ==
    Assign("system_resources", system_resources_value(Ran(cmdOut)), At("established_connections"))

Collect_established_connections ==
    Assign("established_connections", established_connections_value(Ran(cmdOut)), At("network_security"))

Collect_network_security ==
    Assign("network_security", network_security_value(Ran(cmdOut)), At("system_errors"))

Collect_system_errors ==
    Assign("system_errors", system_errors_value(Ran(cmdOut)), At("monitor_log"))

Collect_monitor_log ==
    Assign("monitor_log", monitor_log_value(Ran(cmdOut)), At("backup_log"))

Collect_backup_log ==
    Assign("backup_log", backup_log_value(Ran(cmdOut)), "collect_return")

\* Line 28: subprocess.run raises inside collect(); the exception leaves
\* collect() and is caught by the except clause of main() (line 219).
CollectRaises ==
    /\ \E i \in 1..Len(SectionKeys) :
         /\ pc = At(SectionKeys[i])
         /\ Raising(SectionKeys[i])
    /\ err' = ErrDecode
    /\ pc' = "except"
    /\ UNCHANGED << config, clock, cmdOut, api_key, now, s, sections, prompt, report,
                    tgCaller, tgText, tgChunks, tgI, logLines, requests, calls, exitCode >>

\* Lines 139 and 212: return s; sections = collect().
CollectReturn ==
    /\ pc = "collect_return"
    /\ sections' = s
    /\ pc' = "build_prompt"
    /\ UNCHANGED << config, clock, cmdOut, api_key, now, s, prompt, report, err,
                    tgCaller, tgText, tgChunks, tgI, logLines, requests, calls, exitCode >>

\* ----------------------------------------------------------------------
\* build_prompt(sections, now), digest.py:142-193
\* ----------------------------------------------------------------------

\* Lines 191-192: for title, content in sections.items():
\*                    lines += [f"=== {title} ===", content, ""]
\* Mutant of section_lines: a section with no content is left out.
RECURSIVE section_lines_nonempty(_)
section_lines_nonempty(d) ==
    IF d = << >> THEN << >>
    ELSE (IF d[1][2] = << >> THEN << >>
          ELSE << DelimOpen \o TitleText[d[1][1]] \o DelimClose, d[1][2], << >> >>)
         \o section_lines_nonempty(Tail(d))

RECURSIVE section_lines(_)
section_lines(d) ==
    IF d = << >> THEN << >>
    ELSE << DelimOpen \o TitleText[d[1][1]] \o DelimClose, d[1][2], << >> >>
         \o section_lines(Tail(d))

build_prompt(secs, t) == join(NL, PromptHead(t) \o section_lines(secs))

\* ----------------------------------------------------------------------
\* call_claude(api_key, prompt), digest.py:46-62
\* ----------------------------------------------------------------------

\* The report lengths tried: empty, one code point, what fills the first
\* chunk of the delivery exactly and one more, and 9000 code points.
ReportLens == { 0, 1, 3953, 3954, 9000 }

\* Texts the summarizer can answer with.
Reports == { Fill(n, 0) : n \in ReportLens }

\* What call_claude raises, as str(e): urlopen fails, or the body has no "content".
ClaudeErrors == UrlErrors \cup { ErrNoContent }

\* ----------------------------------------------------------------------
\* main(), digest.py:196-222
\* ----------------------------------------------------------------------

\* Line 197.
MainStart ==
    /\ pc = "start"
    /\ logLines' = log(logLines, clock, MsgDigestStarted)
    /\ pc' = "load_key"
    /\ UNCHANGED << config, clock, cmdOut, api_key, now, s, sections, prompt, report, err,
                    tgCaller, tgText, tgChunks, tgI, requests, calls, exitCode >>

\* config.get("primaryApiKey", "") of the loaded dict.
LoadedKey == get(config.dict, KeyName, << >>)

\* Mutant of KeyFails: the check of line 202 is missing.
KeyFailsOnRaiseOnly == config.raises

\* Lines 199-203 raise: the file cannot be read or parsed, or the key is
\* missing or empty.
KeyFails == config.raises \/ LoadedKey = << >>

\* str(e) of what lines 199-203 raise.
KeyFailure == IF config.raises THEN config.msg ELSE MsgKeyNotFound

\* Lines 199-203 and 209: the key is loaded, `now` is read from the clock.
LoadKeyOk ==
    /\ pc = "load_key"
    /\ ~KeyFails
    /\ api_key' = LoadedKey
    /\ now' = MinuteStamp(clock)
    /\ pc' = "collect"
    /\ UNCHANGED << config, clock, cmdOut, s, sections, prompt, report, err,
                    tgCaller, tgText, tgChunks, tgI, logLines, requests, calls, exitCode >>

\* Lines 204-206: the except clause logs and calls tg() with the error.
LoadKeyFails ==
    /\ pc = "load_key"
    /\ KeyFails
    /\ err' = KeyFailure
    /\ logLines' = log(logLines, clock, MsgErrorLoadingKey \o KeyFailure)
    /\ CallTg("key_error", TgDigestError \o KeyFailure)
    /\ UNCHANGED << config, clock, cmdOut, api_key, now, s, sections, prompt, report,
                    requests, exitCode >>

\* Lines 213-214.
BuildPrompt ==
    /\ pc = "build_prompt"
    /\ prompt' = build_prompt(sections, now)
    /\ calls' = Append(calls, [fn |-> "build_prompt", site |-> "main"])
    /\ logLines' = log(logLines, clock, MsgDataCollected \o MODEL)
    /\ pc' = "call_claude"
    /\ UNCHANGED << config, clock, cmdOut, api_key, now, s, sections, report, err,
                    tgCaller, tgText, tgChunks, tgI, requests, exitCode >>

\* Lines 215-217: call_claude returns the report; it is logged and handed to
\* tg() behind the "Hourly digest" header.
CallClaudeOk ==
    /\ pc = "call_claude"
    /\ \E r \in Reports :
         /\ report' = r
         /\ tgText' = TgHourlyDigest \o now \o TgUtcBlank \o r
    /\ logLines' = log(logLines, clock, MsgResponseReceived)
    /\ tgCaller' = "report"
    /\ tgChunks' = << >>
    /\ tgI' = 0
    /\ calls' = calls \o << [fn |-> "call_claude", site |-> "main"],
                            [fn |-> "tg", site |-> "report"] >>
    /\ pc' = "tg_enter"
    /\ UNCHANGED << config, clock, cmdOut, api_key, now, s, sections, prompt, err,
                    requests, exitCode >>

\* Mutant of CallClaudeRaises: the call is tried again after a failure.
CallClaudeRetries ==
    /\ pc = "call_claude"
    /\ \E e \in ClaudeErrors : err' = e
    /\ calls' = Append(calls, [fn |-> "call_claude", site |-> "main"])
    /\ pc' = "call_claude"
    /\ UNCHANGED << config, clock, cmdOut, api_key, now, s, sections, prompt, report,
                    tgCaller, tgText, tgChunks, tgI, logLines, requests, exitCode >>

\* Line 215: call_claude raises; the except clause of line 219 catches it.
CallClaudeRaises ==
    /\ pc = "call_claude"
    /\ \E e \in ClaudeErrors : err' = e
    /\ calls' = Append(calls, [fn |-> "call_claude", site |-> "main"])
    /\ pc' = "except"
    /\ UNCHANGED << config, clock, cmdOut, api_key, now, s, sections, prompt, report,
                    tgCaller, tgText, tgChunks, tgI, logLines, requests, exitCode >>

\* Line 218, after which main() returns and the process exits with status 0.
LogSentOk ==
    /\ pc = "log_sent"
    /\ logLines' = log(logLines, clock, MsgDigestSentOK)
    /\ pc' = "exited"
    /\ exitCode' = 0
    /\ UNCHANGED << config, clock, cmdOut, api_key, now, s, sections, prompt, report, err,
                    tgCaller, tgText, tgChunks, tgI, requests, calls >>

\* Mutant of MainExcept: the error is logged but no notice is sent.
MainExceptSilent ==
    /\ pc = "except"
    /\ logLines' = log(logLines, clock, MsgError \o err)
    /\ pc' = "sys_exit"
    /\ UNCHANGED << config, clock, cmdOut, api_key, now, s, sections, prompt, report, err,
                    tgCaller, tgText, tgChunks, tgI, requests, calls, exitCode >>

\* Lines 219-221: the except clause logs the error and calls tg() with it.
MainExcept ==
    /\ pc = "except"
    /\ logLines' = log(logLines, clock, MsgError \o err)
    /\ CallTg("script_error", TgScriptError \o err \o TgCodeClose)
    /\ UNCHANGED << config, clock, cmdOut, api_key, now, s, sections, prompt, report, err,
                    requests, exitCode >>

\* Mutant of SysExit: the handler returns instead of exiting with status 1.
SysExitZero ==
    /\ pc = "sys_exit"
    /\ exitCode' = 0
    /\ pc' = "exited"
    /\ UNCHANGED << config, clock, cmdOut, api_key, now, s, sections, prompt, report, err,
                    tgCaller, tgText, tgChunks, tgI, logLines, requests, calls >>

\* Lines 207 and 222: sys.exit(1) after the error notice returned.
SysExit ==
    /\ pc = "sys_exit"
    /\ exitCode' = 1
    /\ pc' = "exited"
    /\ UNCHANGED << config, clock, cmdOut, api_key, now, s, sections, prompt, report, err,
                    tgCaller, tgText, tgChunks, tgI, logLines, requests, calls >>

\* ----------------------------------------------------------------------
\* Specifications
\* ----------------------------------------------------------------------

\* Nothing has been computed or sent yet.
Fresh ==
    /\ prompt = << >>
    /\ report = << >>
    /\ err = << >>
    /\ tgChunks = << >>
    /\ tgI = 0
    /\ requests = << >>
    /\ exitCode = -1

\* A run of the script: python3 digest.py.
Init ==
    /\ Fresh
    /\ pc = "start"
    /\ api_key = << >>
    /\ now = << >>
    /\ logLines = << >>
    /\ s = << >>
    /\ sections = << >>
    /\ config \in Configs
    /\ clock \in Clocks
    /\ cmdOut \in Scenarios
    /\ tgCaller = "none"
    /\ tgText = << >>
    /\ calls = << >>

TgNext == TgEnter \/ TgSendOk \/ TgSendRejected \/ TgSendRaises \/ TgReturn

CollectNext ==
    \/ CollectBegin
    \/ Collect_docker_containers
    \/ Collect_docker_stats
    \/ Collect_openclaw_logs
    \/ Collect_system_resources
    \/ Collect_established_connections
    \/ Collect_network_security
    \/ Collect_system_errors
    \/ Collect_monitor_log
    \/ Collect_backup_log
    \/ CollectRaises
    \/ CollectReturn

Next ==
    \/ MainStart
    \/ LoadKeyOk
    \/ LoadKeyFails
    \/ CollectNext
    \/ BuildPrompt
    \/ CallClaudeOk
    \/ CallClaudeRaises
    \/ TgNext
    \/ LogSentOk
    \/ MainExcept
    \/ SysExit

Spec == Init /\ [][Next]_vars

\* ----------------------------------------------------------------------
\* collect() on its own: every outcome of the commands in which at most
\* MaxAbnormal of them do not print their normal line.
\* ----------------------------------------------------------------------

MaxAbnormal == 1

\* The config from which the key loads.
GoodConfig == [raises |-> FALSE, msg |-> << >>, dict |-> << << KeyName, SomeApiKey >> >>]

\* The run has started and loaded its key (lines 197-209).
KeyLoaded ==
    /\ config = GoodConfig
    /\ clock \in Clocks
    /\ api_key = SomeApiKey
    /\ now = MinuteStamp(clock)
    /\ logLines = log(<< >>, clock, MsgDigestStarted)

\* main() is about to call collect() (line 212).
InitCollect ==
    /\ Fresh
    /\ KeyLoaded
    /\ pc = "collect"
    /\ s = << >>
    /\ sections = << >>
    /\ cmdOut \in Outcomes(MaxAbnormal)
    /\ tgCaller = "none"
    /\ tgText = << >>
    /\ calls = << >>

SpecCollect == InitCollect /\ [][CollectNext]_vars

\* ----------------------------------------------------------------------
\* build_prompt() on its own: snapshots in which at most MaxVaried sections
\* differ from the snapshot of a normal run.
\* ----------------------------------------------------------------------

MaxVaried == 1

\* Section texts: empty, one line, two lines, a line that looks like a delimiter.
SectionTexts ==
    { << >>,
      << 120 >>,
      << 97, 10, 98 >>,
      DelimOpen \o TitleText["backup_log"] \o DelimClose }

\* The snapshot collect() returns when every command prints its normal line.
NormalSections ==
    LET out == Ran(AllNormal)
    IN  << << "docker_containers", docker_containers_value(out) >>,
           << "docker_stats", docker_stats_value(out) >>,
           << "openclaw_logs", openclaw_logs_value(out) >>,
           << "system_resources", system_resources_value(out) >>,
           << "established_connections", established_connections_value(out) >>,
           << "network_security", network_security_value(out) >>,
           << "system_errors", system_errors_value(out) >>,
           << "monitor_log", monitor_log_value(out) >>,
           << "backup_log", backup_log_value(out) >> >>

\* The snapshot d with the text of its i-th section replaced by c.
Replace(d, i, c) == [d EXCEPT ![i] = << d[i][1], c >>]

RECURSIVE Snapshots(_)
Snapshots(n) ==
    IF n = 0 THEN { NormalSections }
    ELSE LET prev == Snapshots(n - 1)
         IN  prev \cup { Replace(d, i, c) : d \in prev, i \in 1..Len(NormalSections),
                                            c \in SectionTexts }

\* main() is about to call build_prompt() (line 213).
InitPrompt ==
    /\ Fresh
    /\ KeyLoaded
    /\ pc = "build_prompt"
    /\ cmdOut = AllNormal
    /\ sections \in Snapshots(MaxVaried)
    /\ s = sections
    /\ tgCaller = "none"
    /\ tgText = << >>
    /\ calls = << [fn |-> "collect", site |-> "main"] >>

SpecPrompt == InitPrompt /\ [][BuildPrompt]_vars

\* ----------------------------------------------------------------------
\* tg() on its own: texts of up to MaxChunks chunks, of the lengths around
\* every multiple of the chunk size.
\* ----------------------------------------------------------------------

MaxChunks == 3

TgLens ==
    { c * ChunkSize + d : c \in 0..(MaxChunks - 1), d \in { 0, 1, ChunkSize - 1 } }
        \cup { MaxChunks * ChunkSize }

TgTexts == { Fill(n, k) : n \in TgLens, k \in { 0, 3 } }

\* tg(text) has just been called.
InitTg ==
    /\ Fresh
    /\ KeyLoaded
    /\ pc = "tg_enter"
    /\ s = << >>
    /\ sections = << >>
    /\ cmdOut = AllNormal
    /\ tgCaller = "direct"
    /\ tgText \in TgTexts
    /\ calls = << [fn |-> "tg", site |-> "direct"] >>

SpecTg == InitTg /\ [][TgNext]_vars

\* ----------------------------------------------------------------------
\* Properties
\* ----------------------------------------------------------------------

\* The functions main() has invoked / the requests sent, picked by a field.
CallsOf(fn) == { i \in 1..Len(calls) : calls[i].fn = fn }
TgCallsAt(site) == { i \in 1..Len(calls) : calls[i].fn = "tg" /\ calls[i].site = site }
RequestsAt(site) == { i \in 1..Len(requests) : requests[i].site = site }

\* The messages logged so far, without their stamps.
Logged == { LoggedMsg(logLines[i]) : i \in 1..Len(logLines) }

\* The text `sub` occurs in the text t.
Contains(t, sub) ==
    \E i \in 0..(Len(t) - Len(sub)) : SubSeq(t, i + 1, i + Len(sub)) = sub

\* ceil(a / b) for b > 0.
CeilDiv(a, b) == (a + b - 1) \div b

\* The texts of a sequence of requests, concatenated in send order.
RECURSIVE Concat(_)
Concat(rs) == IF rs = << >> THEN << >> ELSE rs[1].text \o Concat(Tail(rs))

\* C3: when tg(text) returns and every send succeeded, ceil(L/4000) requests
\* were sent, each of at most 4000 code points and all but the last of exactly
\* 4000, the i-th request carries the i-th slice of the text, and the chunks
\* concatenated in send order are the text.
C3_Chunking ==
    (pc = "tg_returned" /\ \A i \in 1..Len(requests) : requests[i].reply = "ok")
    => /\ Len(requests) = CeilDiv(Len(tgText), ChunkSize)
       /\ \A i \in 1..Len(requests) :
            /\ Len(requests[i].text) <= ChunkSize
            /\ i < Len(requests) => Len(requests[i].text) = ChunkSize
            /\ requests[i].text = [j \in 1..Len(requests[i].text) |->
                                      tgText[(i - 1) * ChunkSize + j]]
       /\ Concat(requests) = tgText

\* C3 witness: a text one code point longer than two chunks was delivered in
\* three accepted requests.
C3_Witness ==
    /\ pc = "tg_returned"
    /\ Len(tgText) = 2 * ChunkSize + 1
    /\ Len(requests) = 3
    /\ \A i \in 1..3 : requests[i].reply = "ok"

\* C4: whatever happens to the send of one chunk, tg() attempts every chunk:
\* when tg() is over, by returning or by raising, one request per chunk was issued.
C4_FailureDoesNotAbort ==
    pc \in { "tg_returned", "tg_raised" } => Len(requests) = Len(tgChunks)

\* C4, the part the code keeps: a rejected reply (its "ok" falsy) is logged and
\* the loop goes on to the next chunk.
C4_RejectedIsLoggedAndGoesOn ==
    [][ TgSendRejected =>
          /\ tgI' = tgI + 1
          /\ pc' = "tg_loop"
          /\ Len(logLines') = Len(logLines) + 1
          /\ LoggedMsg(logLines'[Len(logLines')]) = MsgTgError \o RejectedReply ]_vars

\* The fallback collect() substitutes for the (empty) output of a command;
\* the other commands have none (digest.py:77-137).
FallbackOf ==
    [docker_stats     |-> NoContainersRunning,
     docker_logs      |-> NoLogs,
     ss_established   |-> NoneText,
     ss_top_ips       |-> NoneText,
     fail2ban_status  |-> Fail2banNotAvailable,
     fail2ban_journal |-> NoEvents,
     journal_err      |-> NoneText,
     monitor_tail     |-> EmptyText,
     backup_tail      |-> EmptyText]

\* The section that consists of the output of one command with a fallback.
SectionOfProbe ==
    [docker_stats   |-> "docker_stats",
     docker_logs    |-> "openclaw_logs",
     ss_established |-> "established_connections",
     journal_err    |-> "system_errors",
     monitor_tail   |-> "monitor_log",
     backup_tail    |-> "backup_log"]

\* The label that precedes a command's output inside network_security.
LabelOfProbe ==
    [ss_top_ips       |-> LblTopIps,
     fail2ban_status  |-> LblFail2banStatus,
     fail2ban_journal |-> LblFail2banEvents]

\* The command exited non-zero / its captured output is nothing but whitespace.
Failed(r) == r.rc # 0
OnlyWhitespace(r) == \A i \in 1..Len(r.stdout \o r.stderr) :
                        (r.stdout \o r.stderr)[i] \in Whitespace

\* The captured output without its leading and trailing whitespace.
Trimmed(r) ==
    LET t == r.stdout \o r.stderr
        keep == { i \in 1..Len(t) : t[i] \notin Whitespace }
    IN  IF keep = { } THEN << >>
        ELSE SubSeq(t, CHOOSE i \in keep : \A j \in keep : i <= j,
                       CHOOSE i \in keep : \A j \in keep : i >= j)

\* C5 as claimed: when collect() is done, every probe whose command failed or
\* printed only whitespace has exactly its fallback recorded.
C5_FailedOrBlankGivesFallback ==
    pc = "collect_return" =>
        \A c \in DOMAIN SectionOfProbe :
            (Failed(cmdOut[c]) \/ OnlyWhitespace(cmdOut[c]))
            => DictGet(s, SectionOfProbe[c]) = FallbackOf[c]

\* C5 as amended: when collect() is done, every probe that has a fallback has
\* the fallback recorded exactly when its captured stdout+stderr is empty after
\* trimming, and its trimmed output otherwise (error text included); every
\* section whose commands all behaved normally has its normal value.
C5_BlankGivesFallback ==
    pc = "collect_return" =>
        /\ \A c \in DOMAIN SectionOfProbe :
             DictGet(s, SectionOfProbe[c]) =
                 IF OnlyWhitespace(cmdOut[c]) THEN FallbackOf[c] ELSE Trimmed(cmdOut[c])
        /\ \A c \in DOMAIN LabelOfProbe :
             Contains(DictGet(s, "network_security"),
                      LabelOfProbe[c] \o
                      (IF OnlyWhitespace(cmdOut[c]) THEN FallbackOf[c]
                       ELSE Trimmed(cmdOut[c])))
        /\ \A i \in 1..Len(SectionKeys) :
             (\A c \in SectionCmds[SectionKeys[i]] : cmdOut[c] = NormalOut(c))
             => DictGet(s, SectionKeys[i]) = NormalSections[i][2]

\* C5 witness: the log command failed with nothing captured, "(no logs)" was
\* recorded, and the sections around it have their normal values.
C5_Witness ==
    /\ pc = "collect_return"
    /\ cmdOut["docker_logs"] = SilentFail
    /\ DictGet(s, "openclaw_logs") = NoLogs
    /\ DictGet(s, "docker_stats") = NormalSections[2][2]
    /\ DictGet(s, "system_resources") = NormalSections[4][2]

\* C6: whatever the commands do short of making subprocess.run raise,
\* collect() returns, and what it returns has exactly the nine keys, once
\* each, in the fixed order.
C6_NineKeysInOrder ==
    /\ pc = "collect_return" => DictKeys(s) = SectionKeys
    /\ pc = "build_prompt" => DictKeys(sections) = SectionKeys
    /\ pc = "except" => \E c \in Commands : cmdOut[c].raises

\* C6 witness: collect() returned all nine keys although a command failed.
C6_Witness ==
    /\ pc = "build_prompt"
    /\ \E c \in Commands : Failed(cmdOut[c])
    /\ DictKeys(sections) = SectionKeys
    /\ Len(sections) = 9

\* The block of a section in the request: its delimiter line, its text, and
\* the blank line after it.
Block(title, content) ==
    DelimOpen \o TitleText[title] \o DelimClose \o NL \o content \o NL

\* The blocks of the sections d[1..n], each behind the newline that ends the
\* line before it.
RECURSIVE Blocks(_, _)
Blocks(d, n) ==
    IF n = 0 THEN << >>
    ELSE Blocks(d, n - 1) \o NL \o Block(d[n][1], d[n][2])

\* C7: the request is the fixed head (preamble, rules, example, with `now` in
\* it) followed by one delimited block per section in the snapshot's key
\* order; and the request for the snapshot with one section's text replaced
\* differs from it in that section's block alone.
C7_BlocksInOrderAndLocal ==
    pc = "call_claude" =>
        /\ prompt = join(NL, PromptHead(now)) \o Blocks(sections, Len(sections))
        /\ \A i \in 1..Len(sections) : \A c \in SectionTexts :
             LET other  == build_prompt(Replace(sections, i, c), now)
                 before == Len(join(NL, PromptHead(now)) \o Blocks(sections, i - 1)) + 1
                 old    == Len(Block(sections[i][1], sections[i][2]))
                 new    == Len(Block(sections[i][1], c))
             IN  /\ Len(other) = Len(prompt) - old + new
                 /\ SubSeq(other, 1, before) = SubSeq(prompt, 1, before)
                 /\ SubSeq(other, before + 1, before + new) = Block(sections[i][1], c)
                 /\ SubSeq(other, before + new + 1, Len(other))
                      = SubSeq(prompt, before + old + 1, Len(prompt))

\* C7 witness: a request was built from a snapshot with an empty section.
C7_Witness ==
    /\ pc = "call_claude"
    /\ Len(sections) = 9
    /\ \E i \in 1..Len(sections) : sections[i][2] = << >>
    /\ Contains(prompt, DelimOpen \o TitleText["backup_log"] \o DelimClose)

\* Loading the key fails: the config cannot be read or parsed, or it has no
\* primaryApiKey, or an empty one.
CredentialLoadFails ==
    \/ config.raises
    \/ ~DictHas(config.dict, KeyName)
    \/ DictGet(config.dict, KeyName) = << >>

\* C1: in a run whose key fails to load, collect() and call_claude() are
\* never called and tg() at most once, for the error notice; and when the
\* process has exited, tg() was called exactly once and the exit code is 1.
C1_CredentialFailure ==
    CredentialLoadFails =>
        /\ CallsOf("collect") = { }
        /\ CallsOf("call_claude") = { }
        /\ s = << >>
        /\ CallsOf("tg") \subseteq TgCallsAt("key_error")
        /\ Cardinality(CallsOf("tg")) <= 1
        /\ exitCode \in { -1, 1 }
        /\ pc = "exited" => Cardinality(CallsOf("tg")) = 1 /\ exitCode = 1

\* C1 witness: the config has an empty key; the notice was sent and the
\* process exited with 1.
C1_Witness ==
    /\ ~config.raises
    /\ CredentialLoadFails
    /\ pc = "exited"
    /\ exitCode = 1
    /\ Len(requests) = 1
    /\ requests[1].reply = "ok"
    /\ requests[1].text = TgDigestError \o MsgKeyNotFound

\* call_claude was called and raised: no report was handed to tg().
ClaudeRaised == CallsOf("call_claude") # { } /\ report = << >> /\ TgCallsAt("report") = { }

\* C2: once call_claude has raised, no request of the report delivery is made
\* and "digest sent OK" is not logged; and when the process has exited, an
\* "ERROR: <message>" line was logged, tg() was called exactly once, with a
\* text that contains the message, and the exit code is 1.
C2_SummarizerFailure ==
    ClaudeRaised =>
        /\ RequestsAt("report") = { }
        /\ \A i \in 1..Len(requests) : ~Contains(requests[i].text, TgHourlyDigest)
        /\ MsgDigestSentOK \notin Logged
        /\ exitCode \in { -1, 1 }
        /\ pc = "exited" =>
             /\ exitCode = 1
             /\ Cardinality(CallsOf("tg")) = 1
             /\ \E e \in ClaudeErrors :
                  /\ (MsgError \o e) \in Logged
                  /\ tgText = TgScriptError \o e \o TgCodeClose
                  /\ Contains(tgText, e)

\* C2 witness: call_claude timed out; the notice with "timed out" was sent
\* and the process exited with 1.
C2_Witness ==
    /\ ClaudeRaised
    /\ pc = "exited"
    /\ exitCode = 1
    /\ Len(requests) = 1
    /\ requests[1].reply = "ok"
    /\ Contains(requests[1].text, <<116, 105, 109, 101, 100, 32, 111, 117, 116>>)

\* The sizes of the requests of the report delivery, in send order.
ReportSizes ==
    LET rs == SelectSeq(requests, LAMBDA r : r.site = "report")
    IN  [i \in 1..Len(rs) |-> Len(rs[i].text)]

\* C8 as claimed: a report of 9000 code points is delivered in three chunks
\* of 4000, 4000 and 1000.
C8_Sizes_4000_4000_1000 ==
    (pc = "log_sent" /\ Len(report) = 9000) => ReportSizes = << 4000, 4000, 1000 >>

\* C8 as amended: for a report of 9000 code points the text delivered is the
\* 47-code-point header followed by the report, 9047 code points; the chunks
\* requested are, in order, the first ones of 4000, 4000, 1047; and when the
\* delivery call has returned all three were requested.
C8_Sizes_4000_4000_1047 ==
    Len(report) = 9000 =>
        /\ tgCaller = "report" => Len(tgText) = 9047
        /\ Len(ReportSizes) <= 3
        /\ ReportSizes = SubSeq(<< 4000, 4000, 1047 >>, 1, Len(ReportSizes))
        /\ pc = "log_sent" => ReportSizes = << 4000, 4000, 1047 >>

\* C8 witness: the delivery of a 9000-code-point report has returned.
C8_Witness ==
    /\ pc = "log_sent"
    /\ Len(report) = 9000
    /\ ReportSizes = << 4000, 4000, 1047 >>

\* A request of one of the two error notices raised.
NoticeRaised ==
    \E i \in 1..Len(requests) :
        requests[i].site \in { "key_error", "script_error" } /\ requests[i].reply = "raised"

\* The run went through collection, summarization and report delivery and
\* nothing raised.
CompletedCleanly ==
    /\ ~CredentialLoadFails
    /\ err = << >>
    /\ DictKeys(sections) = SectionKeys
    /\ report \in Reports
    /\ \A i \in 1..Len(requests) : requests[i].site = "report" /\ requests[i].reply # "raised"
    /\ Concat(requests) = TgHourlyDigest \o now \o TgUtcBlank \o report

\* C9: the process has an exit code exactly when it has exited, and the code
\* is 0 or 1; it is 0 exactly when the run completed cleanly; it is 1 when
\* the key failed to load and when anything raised in collect(),
\* call_claude() or tg(), also in the tg() of an error notice.
C9_ExitCode ==
    /\ exitCode \in { -1, 0, 1 }
    /\ pc = "exited" <=> exitCode # -1
    /\ NoticeRaised => exitCode = 1
    /\ pc = "exited" =>
         /\ exitCode = 0 <=> CompletedCleanly
         /\ CredentialLoadFails => exitCode = 1
         /\ err # << >> => exitCode = 1
         /\ (\E i \in 1..Len(requests) : requests[i].reply = "raised") => exitCode = 1
         /\ ClaudeRaised => exitCode = 1
         /\ (\E c \in Commands : cmdOut[c].raises) => exitCode = 1

\* C9 witness: call_claude raised and then the error notice raised too; the
\* exit code is 1.
C9_Witness ==
    /\ pc = "exited"
    /\ ClaudeRaised
    /\ NoticeRaised
    /\ exitCode = 1

\* The place of a call in the fixed order of a run.
CallRank(c) ==
    CASE c.fn = "collect"      -> 1
      [] c.fn = "build_prompt" -> 2
      [] c.fn = "call_claude"  -> 3
      [] c.fn = "tg" /\ c.site = "report" -> 4
      [] OTHER -> 5

\* How far the run has come.
Progress ==
    LET inTg(base) == IF pc = "tg_enter" THEN base ELSE base + 1
    IN  CASE pc = "start"          -> 0
          [] pc = "load_key"       -> 1
          [] pc = "collect"        -> 2
          [] pc = "collect_return" -> 12
          [] pc = "build_prompt"   -> 13
          [] pc = "call_claude"    -> 14
          [] pc \in { "tg_enter", "tg_loop" } /\ tgCaller = "key_error"    -> inTg(2)
          [] pc \in { "tg_enter", "tg_loop" } /\ tgCaller = "report"       -> inTg(15)
          [] pc = "log_sent"       -> 17
          [] pc = "except"         -> 18
          [] pc \in { "tg_enter", "tg_loop" } /\ tgCaller = "script_error" -> inTg(19)
          [] pc = "sys_exit"       -> 21
          [] pc = "exited"         -> 22
          [] OTHER -> 2 + (CHOOSE i \in 1..Len(SectionKeys) : pc = At(SectionKeys[i]))

\* What holds of the calls made so far, in every state of a run.
C10_Order ==
    /\ \A i, j \in 1..Len(calls) : i < j => CallRank(calls[i]) < CallRank(calls[j])
    /\ CallsOf("call_claude") # { } =>
         /\ CallsOf("collect") # { }
         /\ DictKeys(sections) = SectionKeys
         /\ prompt = build_prompt(sections, now)
    /\ (TgCallsAt("report") # { } \/ RequestsAt("report") # { }) =>
         /\ CallsOf("call_claude") # { }
         /\ report \in Reports
    /\ MsgDigestSentOK \in Logged =>
         /\ pc = "exited"
         /\ Len(requests) = Len(tgChunks)
         /\ \A i \in 1..Len(requests) : requests[i].site = "report" /\ requests[i].reply # "raised"
    /\ pc \in { "collect_return", "build_prompt", "call_claude", "log_sent" } => err = << >>

\* C10: a run only moves forward through start, key loading, collecting,
\* request building, summarizing, delivering, done (or into the failure
\* handler), never back; collect(), build_prompt(), call_claude() and the
\* report delivery are each called at most once and in that order; the
\* summarizer is called only with all nine sections collected, the report
\* delivery only after the summarizer returned, and "digest sent OK" is logged
\* only after the report delivery returned.
C10_LinearRun ==
    /\ []C10_Order
    /\ [][ \/ Progress' > Progress
           \/ pc = "tg_loop" /\ pc' = "tg_loop" /\ tgI' = tgI + 1 ]_vars

\* C10 witness: a run went through all the steps and logged "digest sent OK".
C10_Witness ==
    /\ pc = "exited"
    /\ exitCode = 0
    /\ MsgDigestSentOK \in Logged
    /\ Len(calls) = 4
    /\ Len(requests) = 3

=============================================================================
